---- MODULE Spec2Model ----
(***************************************************************************)
(* Model of examples/exoplanet-retrievals/run_prt_basic_pymultinest_mpi.py *)
(*                                                                         *)
(* The script is a linear pipeline: parse the command line, export the     *)
(* environment variables of the forward-model library, print the MPI rank  *)
(* banner, import petitRADTRANS, check the input file, create the output   *)
(* directory, build a RetrievalConfig, construct a Retrieval and run it.   *)
(* Under mpirun several processes execute the same pipeline on the same    *)
(* command line and share one filesystem.                                  *)
(*                                                                         *)
(* Strings are sequences of one-character or one-component strings:        *)
(* a number literal is <<"4","0">>, a path is <<"/","home","x">> or        *)
(* <<".","retrievals","runs">>.                                            *)
(***************************************************************************)
EXTENDS Integers, Sequences, FiniteSets, TLC

\* ---------------------------------------------------------------- bounds

\* Number of processes started by the launcher (1 = plain python).
NumProcs == 2
\* The unit interval is sampled at k/Grid, k = 0..Grid.
Grid == 4
\* How many prior-transform calls the sampler makes in a modelled run.
MaxCalls == 3

Procs == 1..NumProcs

\* ------------------------------------------------------------- strings

Digits == <<"0", "1", "2", "3", "4", "5", "6", "7", "8", "9">>

IsDigit(c) == \E i \in 1..10 : Digits[i] = c

DigitVal(c) == (CHOOSE i \in 1..10 : Digits[i] = c) - 1

RECURSIVE DigitsVal(_)
DigitsVal(s) ==
    IF s = <<>> THEN 0
    ELSE 10 * DigitsVal(SubSeq(s, 1, Len(s) - 1)) + DigitVal(s[Len(s)])

\* The body of a literal after an optional sign.
Unsigned(tok) == IF tok # <<>> /\ tok[1] \in {"-", "+"} THEN Tail(tok) ELSE tok

\* int(tok) succeeds: argparse's type=int accepts the token.
IntOk(tok) == Unsigned(tok) # <<>> /\ \A i \in 1..Len(Unsigned(tok)) : IsDigit(Unsigned(tok)[i])

\* int(tok)
PyInt(tok) ==
    IF tok # <<>> /\ tok[1] = "-" THEN 0 - DigitsVal(Unsigned(tok))
    ELSE DigitsVal(Unsigned(tok))

RECURSIVE NatStr(_)
NatStr(n) == IF n < 10 THEN <<Digits[n + 1]>> ELSE NatStr(n \div 10) \o <<Digits[(n % 10) + 1]>>

\* str(n)
PyStr(n) == IF n < 0 THEN <<"-">> \o NatStr(0 - n) ELSE NatStr(n)

\* --------------------------------------------------------------- paths

\* The working directory and the home directory of the processes.
Cwd == <<"work">>
Home == <<"home", "jkrick">>

IsName(c) == c \notin {"/", "."}

\* Path(raw): a leading "/" makes the path absolute, "." components drop out.
PathOf(raw) ==
    [abs |-> raw # <<>> /\ raw[1] = "/", parts |-> SelectSeq(raw, IsName)]

\* Path.expanduser()
ExpandUser(path) ==
    IF ~path.abs /\ path.parts # <<>> /\ path.parts[1] = "~"
    THEN [abs |-> TRUE, parts |-> Home \o Tail(path.parts)]
    ELSE path

\* Path.resolve(): absolute, relative to the working directory.
Resolve(path) ==
    IF path.abs THEN path ELSE [abs |-> TRUE, parts |-> Cwd \o path.parts]

\* path / name
Join(path, name) == [abs |-> path.abs, parts |-> Append(path.parts, name)]

\* Path.parent: the parent of "/" and of "." is itself.
Parent(path) ==
    IF path.parts = <<>> THEN path
    ELSE [abs |-> path.abs, parts |-> SubSeq(path.parts, 1, Len(path.parts) - 1)]

\* str(path)
PathStr(path) ==
    IF path.abs THEN <<"/">> \o path.parts
    ELSE IF path.parts = <<>> THEN <<".">>
    ELSE path.parts

\* The filesystem entry a path names: its components from the root.
Loc(path) == Resolve(path).parts

NoPath == [abs |-> FALSE, parts |-> <<>>]

\* ------------------------------------------------------- command line

\* Defaults of the argparse options.
DefaultPrtData == <<"/", "home", "jkrick", "fornax-demo-notebooks", "pRT", "prt_data">>
DefaultOutputDir == <<".", "retrievals", "runs">>
DefaultName == <<"hst_example_clear_spec">>
DefaultNLivePoints == 40
DefaultOmpThreads == 1

DataFileName == "hst_example_clear_spec.txt"

\* An option that was not given on the command line.
NotGiven == [given |-> FALSE, str |-> <<>>]
Given(s) == [given |-> TRUE, str |-> s]

NoArgs ==
    [prt_data |-> <<>>, output_dir |-> <<>>, name |-> <<>>, use_mpi |-> FALSE,
     n_live_points |-> 0, resume |-> FALSE, evaluate_only |-> FALSE, omp_threads |-> 0]

\* The namespace argparse builds from a command line it accepts.
Namespace(cl) ==
    [prt_data      |-> IF cl.prt_data.given THEN cl.prt_data.str ELSE DefaultPrtData,
     output_dir    |-> IF cl.output_dir.given THEN cl.output_dir.str ELSE DefaultOutputDir,
     name          |-> DefaultName,
     use_mpi       |-> cl.use_mpi,
     n_live_points |-> IF cl.n_live_points.given THEN PyInt(cl.n_live_points.str)
                       ELSE DefaultNLivePoints,
     resume        |-> cl.resume,
     evaluate_only |-> cl.evaluate_only,
     omp_threads   |-> IF cl.omp_threads.given THEN PyInt(cl.omp_threads.str)
                       ELSE DefaultOmpThreads]

\* p.parse_args(): -h prints the help and exits 0; a value that type=int
\* rejects is a usage error (exit 2); otherwise the namespace is returned.
ParseOutcome(cl) ==
    IF cl.help THEN "help"
    ELSE IF (cl.n_live_points.given /\ ~IntOk(cl.n_live_points.str))
            \/ (cl.omp_threads.given /\ ~IntOk(cl.omp_threads.str)) THEN "usage"
    ELSE "ok"

\* ---------------------------------------------------------------- state

VARIABLES
    argv,        \* the command line every process is started with
    dirs,        \* shared filesystem: the directories that exist
    files,       \* shared filesystem: the regular files that exist
    prtInstalled,\* petitRADTRANS is importable in this environment
    mpi4pyInstalled, \* mpi4py is importable in this environment
    engineFault, \* where the external engine raises: none/config/construct/run
    pc,          \* per process: the next statement of main()
    args,        \* per process: the parsed namespace
    env,         \* per process: os.environ (the three variables of interest)
    stderr,      \* per process: diagnostic lines
    stdout,      \* per process: printed lines
    imported,    \* per process: petitRADTRANS imported, with the environment it saw
    locals,      \* per process: data_file, output_dir, run_mode
    mkStack,     \* per process: the active Path.mkdir calls, innermost last
    config,      \* per process: the RetrievalConfig
    engine,      \* per process: the Retrieval
    runCall,     \* per process: the arguments of retrieval.run
    error,       \* per process: the exception that ended main()
    exitCode,    \* per process: the exit status, -1 while running
    steps,       \* per process: the pipeline steps performed, in order
    calls,       \* number of prior-transform evaluations made by the sampler
    priorLog     \* the evaluations: parameter, cube coordinate, value

vars ==
    <<argv, dirs, files, prtInstalled, mpi4pyInstalled, engineFault, pc, args, env, stderr, stdout,
      imported, locals, mkStack, config, engine, runCall, error, exitCode, steps,
      calls, priorLog>>

fsVars == <<dirs, files>>
worldVars == <<argv, prtInstalled, mpi4pyInstalled, engineFault>>
priorVars == <<calls, priorLog>>

EnvNames == {"PRT_INPUT_DATA_PATH", "pRT_input_data_path", "OMP_NUM_THREADS"}

Unset == [isset |-> FALSE, byScript |-> FALSE, str |-> <<>>]
Inherited(s) == [isset |-> TRUE, byScript |-> FALSE, str |-> s]
Exported(s) == [isset |-> TRUE, byScript |-> TRUE, str |-> s]

NoError == [type |-> "none", path |-> NoPath]
NoLocals == [data_file |-> NoPath, output_dir |-> NoPath, run_mode |-> ""]
NoConfig ==
    [built |-> FALSE, retrieval_name |-> <<>>, run_mode |-> "", amr |-> FALSE,
     scattering_in_emission |-> FALSE, params |-> <<>>, rayleigh_species |-> <<>>,
     continuum_opacities |-> <<>>, line_species |-> <<>>, data |-> <<>>]
NoEngine ==
    [built |-> FALSE, output_directory |-> <<>>, use_mpi |-> FALSE,
     evaluate_sample_spectra |-> FALSE, use_prt_plot_style |-> FALSE, ultranest |-> FALSE]
NoRun == [called |-> FALSE, n_live_points |-> 0, const_efficiency_mode |-> FALSE, resume |-> FALSE]
NotImported == [done |-> FALSE, env |-> [n \in EnvNames |-> Unset]]

\* All strict prefixes and the path itself, as filesystem entries.
Ancestors(loc) == {SubSeq(loc, 1, i) : i \in 0..Len(loc)}

\* ------------------------------------------------------------- pipeline

\* Faulty order: OMP_NUM_THREADS is exported only after the library import.
NextPcOmpAfterImport(at) ==
    CASE at = "parse"     -> "env_data"
      [] at = "env_data"  -> "banner"
      [] at = "banner"    -> "import"
      [] at = "import"    -> "env_omp"
      [] at = "env_omp"   -> "validate"
      [] at = "validate"  -> "mkdir"
      [] at = "mkdir"     -> "config"
      [] at = "config"    -> "construct"
      [] at = "construct" -> "run"
      [] at = "run"       -> "running"
      [] at = "running"   -> "report"
      [] at = "report"    -> "done"

\* Faulty order: the output directory is created before the input is checked.
NextPcMkdirFirst(at) ==
    CASE at = "parse"     -> "env_data"
      [] at = "env_data"  -> "env_omp"
      [] at = "env_omp"   -> "banner"
      [] at = "banner"    -> "import"
      [] at = "import"    -> "mkdir"
      [] at = "mkdir"     -> "validate"
      [] at = "validate"  -> "config"
      [] at = "config"    -> "construct"
      [] at = "construct" -> "run"
      [] at = "run"       -> "running"
      [] at = "running"   -> "report"
      [] at = "report"    -> "done"

\* The order of the statements of main(): the statement after `at`.
NextPc(at) ==
    CASE at = "parse"     -> "env_data"
      [] at = "env_data"  -> "env_omp"
      [] at = "env_omp"   -> "banner"
      [] at = "banner"    -> "import"
      [] at = "import"    -> "validate"
      [] at = "validate"  -> "mkdir"
      [] at = "mkdir"     -> "config"
      [] at = "config"    -> "construct"
      [] at = "construct" -> "run"
      [] at = "run"       -> "running"
      [] at = "running"   -> "report"
      [] at = "report"    -> "done"

\* Faulty exit: the exception is swallowed and the process exits 0.
RaiseExitZero(p, type, path) ==
    /\ error' = [error EXCEPT ![p] = [type |-> type, path |-> path]]
    /\ exitCode' = [exitCode EXCEPT ![p] = 0]
    /\ pc' = [pc EXCEPT ![p] = "failed"]

\* An unhandled exception leaves main(): traceback, exit status 1.
Raise(p, type, path) ==
    /\ error' = [error EXCEPT ![p] = [type |-> type, path |-> path]]
    /\ exitCode' = [exitCode EXCEPT ![p] = 1]
    /\ pc' = [pc EXCEPT ![p] = "failed"]

\* args = _parse_args()
ParseArgs(p) ==
    /\ pc[p] = "parse"
    /\ steps' = [steps EXCEPT ![p] = Append(@, "parse")]
    /\ IF ParseOutcome(argv) = "ok"
       THEN /\ args' = [args EXCEPT ![p] = Namespace(argv)]
            /\ pc' = [pc EXCEPT ![p] = NextPc("parse")]
            /\ UNCHANGED <<exitCode, error, stderr, stdout>>
       ELSE IF ParseOutcome(argv) = "help"
       THEN /\ stdout' = [stdout EXCEPT ![p] = Append(@, "usage:")]
            /\ exitCode' = [exitCode EXCEPT ![p] = 0]
            /\ pc' = [pc EXCEPT ![p] = "exited"]
            /\ UNCHANGED <<args, error, stderr>>
       ELSE /\ stderr' = [stderr EXCEPT ![p] = Append(@, "usage:")]
            /\ exitCode' = [exitCode EXCEPT ![p] = 2]
            /\ error' = [error EXCEPT ![p] = [type |-> "SystemExit", path |-> NoPath]]
            /\ pc' = [pc EXCEPT ![p] = "failed"]
            /\ UNCHANGED <<args, stdout>>
    /\ UNCHANGED <<worldVars, fsVars, env, imported, locals, mkStack, config, engine,
                   runCall, priorVars>>

\* os.environ["PRT_INPUT_DATA_PATH"] = os.environ["pRT_input_data_path"] = args.prt_data
\* and the two diagnostic prints.
SetDataPathEnv(p) ==
    /\ pc[p] = "env_data"
    /\ env' = [env EXCEPT ![p] = [@ EXCEPT !["PRT_INPUT_DATA_PATH"] = Exported(args[p].prt_data),
                                           !["pRT_input_data_path"] = Exported(args[p].prt_data)]]
    /\ stderr' = [stderr EXCEPT ![p] = @ \o <<"[prt] PRT_INPUT_DATA_PATH=", "[prt] ENV dump:">>]
    /\ pc' = [pc EXCEPT ![p] = NextPc("env_data")]
    /\ UNCHANGED <<worldVars, fsVars, args, stdout, imported, locals, mkStack, config,
                   engine, runCall, error, exitCode, steps, priorVars>>

\* os.environ["OMP_NUM_THREADS"] = str(args.omp_threads)
SetOmpThreads(p) ==
    /\ pc[p] = "env_omp"
    /\ env' = [env EXCEPT ![p] = [@ EXCEPT !["OMP_NUM_THREADS"] = Exported(PyStr(args[p].omp_threads))]]
    /\ steps' = [steps EXCEPT ![p] = Append(@, "env")]
    /\ pc' = [pc EXCEPT ![p] = NextPc("env_omp")]
    /\ UNCHANGED <<worldVars, fsVars, args, stderr, stdout, imported, locals, mkStack,
                   config, engine, runCall, error, exitCode, priorVars>>

\* Faulty handler: the except clause names an exception the import never raises.
BannerCatchesNothing(exc) == FALSE

\* The except clause of _mpi_banner(): which exceptions of the import it handles.
BannerCatches(exc) == exc = "ImportError"

\* _mpi_banner(): the rank line when mpi4py imports; when the import raises
\* ImportError, the "unavailable" line and a plain return.
MpiBanner(p) ==
    /\ pc[p] = "banner"
    /\ steps' = [steps EXCEPT ![p] = Append(@, "banner")]
    /\ IF mpi4pyInstalled
       THEN /\ stderr' = [stderr EXCEPT ![p] = Append(@, "[mpi] rank")]
            /\ pc' = [pc EXCEPT ![p] = NextPc("banner")]
            /\ UNCHANGED <<error, exitCode>>
       ELSE IF BannerCatches("ImportError")
       THEN /\ stderr' = [stderr EXCEPT ![p] = Append(@, "[mpi] mpi4py unavailable")]
            /\ pc' = [pc EXCEPT ![p] = NextPc("banner")]
            /\ UNCHANGED <<error, exitCode>>
       ELSE /\ Raise(p, "ImportError", NoPath)
            /\ UNCHANGED stderr
    /\ UNCHANGED <<worldVars, fsVars, args, env, stdout, imported, locals, mkStack,
                   config, engine, runCall, priorVars>>

\* import numpy; from petitRADTRANS import ...: the library reads the
\* environment as it is at this moment.
ImportPrt(p) ==
    /\ pc[p] = "import"
    /\ steps' = [steps EXCEPT ![p] = Append(@, "import")]
    /\ IF prtInstalled
       THEN /\ imported' = [imported EXCEPT ![p] = [done |-> TRUE, env |-> env[p]]]
            /\ pc' = [pc EXCEPT ![p] = NextPc("import")]
            /\ UNCHANGED <<error, exitCode>>
       ELSE /\ Raise(p, "ImportError", NoPath)
            /\ UNCHANGED imported
    /\ UNCHANGED <<worldVars, fsVars, args, env, stderr, stdout, locals, mkStack, config,
                   engine, runCall, priorVars>>

\* data_file = Path(args.prt_data).expanduser().resolve() / "hst_example_clear_spec.txt"
DataFile(ns) == Join(Resolve(ExpandUser(PathOf(ns.prt_data))), DataFileName)

\* Path.exists()
Exists(path) == Loc(path) \in dirs \/ Loc(path) \in files

\* Faulty check: the existence test is dropped.
DataFileMissingNever(ns) == FALSE

\* not data_file.exists()
DataFileMissing(ns) == ~Exists(DataFile(ns))

\* if not data_file.exists(): raise FileNotFoundError(...)
ValidateInput(p) ==
    /\ pc[p] = "validate"
    /\ steps' = [steps EXCEPT ![p] = Append(@, "validate")]
    /\ locals' = [locals EXCEPT ![p].data_file = DataFile(args[p])]
    /\ IF DataFileMissing(args[p])
       THEN Raise(p, "FileNotFoundError", DataFile(args[p]))
       ELSE /\ pc' = [pc EXCEPT ![p] = NextPc("validate")]
            /\ UNCHANGED <<error, exitCode>>
    /\ UNCHANGED <<worldVars, fsVars, args, env, stderr, stdout, imported, mkStack,
                   config, engine, runCall, priorVars>>

\* output_dir = Path(args.output_dir).expanduser()
OutputDir(ns) == ExpandUser(PathOf(ns.output_dir))

\* Faulty flags: exist_ok left at its default.
MkdirFlagsNoExistOk == [parents |-> TRUE, exist_ok |-> FALSE]

\* The flags of output_dir.mkdir(parents=True, exist_ok=True).
MkdirFlags == [parents |-> TRUE, exist_ok |-> TRUE]

Frame(path, parents, exist_ok) == [path |-> path, parents |-> parents, exist_ok |-> exist_ok]

\* Faulty retry: the retry insists on creating the directory itself.
RetryFrameStrict(f) == Frame(f.path, FALSE, FALSE)

\* After the parent was created Path.mkdir calls itself again on the same path
\* with parents=False and the caller's exist_ok.
RetryFrame(f) == Frame(f.path, FALSE, f.exist_ok)

\* output_dir = ...; output_dir.mkdir(...) is entered.
MkdirBegin(p) ==
    /\ pc[p] = "mkdir"
    /\ locals' = [locals EXCEPT ![p].output_dir = OutputDir(args[p])]
    /\ mkStack' = [mkStack EXCEPT ![p] =
                      <<Frame(OutputDir(args[p]), MkdirFlags.parents, MkdirFlags.exist_ok)>>]
    /\ pc' = [pc EXCEPT ![p] = "mkdir_sys"]
    /\ UNCHANGED <<worldVars, fsVars, args, env, stderr, stdout, imported, config, engine,
                   runCall, error, exitCode, steps, priorVars>>

\* Path.is_dir()
IsDir(path) == Loc(path) \in dirs

\* The outcome of the os.mkdir(path) system call on the current filesystem.
OsMkdirResult(path) ==
    IF Exists(path) THEN "EEXIST"
    ELSE IF Loc(Parent(Resolve(path))) \in files THEN "ENOTDIR"
    ELSE IF Loc(Parent(Resolve(path))) \notin dirs THEN "ENOENT"
    ELSE "created"

\* The innermost Path.mkdir call returns; main() goes on when it was the outermost.
MkdirReturn(p, stack) ==
    /\ mkStack' = [mkStack EXCEPT ![p] = stack]
    /\ IF stack = <<>>
       THEN /\ pc' = [pc EXCEPT ![p] = NextPc("mkdir")]
            /\ steps' = [steps EXCEPT ![p] = Append(@, "mkdir")]
       ELSE UNCHANGED <<pc, steps>>
    /\ UNCHANGED <<error, exitCode>>

\* One os.mkdir system call of Path.mkdir and the handling of its result:
\*   FileNotFoundError: with parents, create the parent (parents=True,
\*     exist_ok=True), then retry with parents=False; otherwise re-raise
\*   other OSError: swallowed when exist_ok and the path is a directory
MkdirSyscall(p) ==
    /\ pc[p] = "mkdir_sys"
    /\ mkStack[p] # <<>>
    /\ LET f    == mkStack[p][Len(mkStack[p])]
           rest == SubSeq(mkStack[p], 1, Len(mkStack[p]) - 1)
           res  == OsMkdirResult(f.path)
       IN  CASE res = "created" ->
                  /\ dirs' = dirs \cup {Loc(f.path)}
                  /\ MkdirReturn(p, rest)
             [] res = "ENOENT" ->
                  /\ UNCHANGED dirs
                  /\ IF ~f.parents \/ Parent(f.path) = f.path
                     THEN /\ Raise(p, "FileNotFoundError", f.path)
                          /\ UNCHANGED <<mkStack, steps>>
                     ELSE /\ mkStack' = [mkStack EXCEPT ![p] =
                                rest \o <<RetryFrame(f),
                                          Frame(Parent(f.path), TRUE, TRUE)>>]
                          /\ UNCHANGED <<pc, steps, error, exitCode>>
             [] res \in {"EEXIST", "ENOTDIR"} ->
                  /\ UNCHANGED dirs
                  /\ IF ~f.exist_ok \/ ~IsDir(f.path)
                     THEN /\ Raise(p, IF res = "EEXIST" THEN "FileExistsError"
                                      ELSE "NotADirectoryError", f.path)
                          /\ UNCHANGED <<mkStack, steps>>
                     ELSE MkdirReturn(p, rest)
    /\ UNCHANGED <<worldVars, files, args, env, stderr, stdout, imported, locals, config,
                   engine, runCall, priorVars>>

\* Faulty toggle: the two modes are exchanged.
RunModeSwapped(ns) == IF ns.evaluate_only THEN "retrieve" ELSE "evaluate"

\* run_mode = "evaluate" if args.evaluate_only else "retrieve"
RunMode(ns) == IF ns.evaluate_only THEN "evaluate" ELSE "retrieve"

\* The parameters registered with add_parameter, in order: name and is-free flag.
Parameters ==
    <<[name |-> "stellar_radius", free |-> FALSE],
      [name |-> "log_g", free |-> TRUE],
      [name |-> "planet_radius", free |-> TRUE],
      [name |-> "temperature", free |-> TRUE],
      [name |-> "log_Pcloud", free |-> TRUE]>>

\* RetrievalConfig(...) with the parameters, the opacity species and the one dataset.
Config(ns, loc) ==
    [built                  |-> TRUE,
     retrieval_name         |-> ns.name,
     run_mode               |-> loc.run_mode,
     amr                    |-> FALSE,
     scattering_in_emission |-> FALSE,
     params                 |-> Parameters,
     rayleigh_species       |-> <<"H2", "He">>,
     continuum_opacities    |-> <<"H2--H2", "H2--He">>,
     line_species           |-> <<"H2O__POKAZATEL", "CH4__HITEMP", "CO-NatAbund__HITEMP">>,
     data                   |-> PathStr(loc.data_file)]

\* Lines 183-247: run_mode, RetrievalConfig, add_parameter, set_*_species, add_data.
BuildConfig(p) ==
    /\ pc[p] = "config"
    /\ steps' = [steps EXCEPT ![p] = Append(@, "config")]
    /\ locals' = [locals EXCEPT ![p].run_mode = RunMode(args[p])]
    /\ IF engineFault = "config"
       THEN /\ Raise(p, "EngineError", NoPath)
            /\ UNCHANGED config
       ELSE /\ config' = [config EXCEPT ![p] = Config(args[p], locals'[p])]
            /\ pc' = [pc EXCEPT ![p] = NextPc("config")]
            /\ UNCHANGED <<error, exitCode>>
    /\ UNCHANGED <<worldVars, fsVars, args, env, stderr, stdout, imported, mkStack, engine,
                   runCall, priorVars>>

\* Retrieval(retrieval_config, output_directory=str(output_dir), use_mpi=..., ultranest=False)
Engine(ns, loc) ==
    [built                   |-> TRUE,
     output_directory        |-> PathStr(loc.output_dir),
     use_mpi                 |-> ns.use_mpi,
     evaluate_sample_spectra |-> FALSE,
     use_prt_plot_style      |-> TRUE,
     ultranest               |-> FALSE]

ConstructEngine(p) ==
    /\ pc[p] = "construct"
    /\ steps' = [steps EXCEPT ![p] = Append(@, "construct")]
    /\ IF engineFault = "construct"
       THEN /\ Raise(p, "EngineError", NoPath)
            /\ UNCHANGED engine
       ELSE /\ engine' = [engine EXCEPT ![p] = Engine(args[p], locals[p])]
            /\ pc' = [pc EXCEPT ![p] = NextPc("construct")]
            /\ UNCHANGED <<error, exitCode>>
    /\ UNCHANGED <<worldVars, fsVars, args, env, stderr, stdout, imported, locals, mkStack,
                   config, runCall, priorVars>>

\* Faulty hand-over: a non-positive live-point count is replaced by the default.
RunArgsClamped(ns) ==
    [called                |-> TRUE,
     n_live_points         |-> IF ns.n_live_points > 0 THEN ns.n_live_points
                               ELSE DefaultNLivePoints,
     const_efficiency_mode |-> FALSE,
     resume                |-> ns.resume]

\* The keyword arguments of retrieval.run(...).
RunArgs(ns) ==
    [called                |-> TRUE,
     n_live_points         |-> ns.n_live_points,
     const_efficiency_mode |-> FALSE,
     resume                |-> ns.resume]

\* retrieval.run(...) is entered: the engine owns the control flow from here.
RunEngine(p) ==
    /\ pc[p] = "run"
    /\ steps' = [steps EXCEPT ![p] = Append(@, "run")]
    /\ runCall' = [runCall EXCEPT ![p] = RunArgs(args[p])]
    /\ pc' = [pc EXCEPT ![p] = NextPc("run")]
    /\ UNCHANGED <<worldVars, fsVars, args, env, stderr, stdout, imported, locals, mkStack,
                   config, engine, error, exitCode, priorVars>>

\* retrieval.run(...) returns or raises.
EngineReturn(p) ==
    /\ pc[p] = "running"
    /\ IF engineFault = "run"
       THEN Raise(p, "EngineError", NoPath)
       ELSE /\ pc' = [pc EXCEPT ![p] = NextPc("running")]
            /\ UNCHANGED <<error, exitCode>>
    /\ UNCHANGED <<worldVars, fsVars, args, env, stderr, stdout, imported, locals, mkStack,
                   config, engine, runCall, steps, priorVars>>

\* print("\nDone."); print("Outputs written to: ..."); return 0; SystemExit(0)
Report(p) ==
    /\ pc[p] = "report"
    /\ stdout' = [stdout EXCEPT ![p] = @ \o <<"Done.", "Outputs written to:">>]
    /\ exitCode' = [exitCode EXCEPT ![p] = 0]
    /\ pc' = [pc EXCEPT ![p] = NextPc("report")]
    /\ UNCHANGED <<worldVars, fsVars, args, env, stderr, imported, locals, mkStack, config,
                   engine, runCall, error, steps, priorVars>>

\* One statement of main() in process p.
Step(p) ==
    \/ ParseArgs(p)
    \/ SetDataPathEnv(p)
    \/ SetOmpThreads(p)
    \/ MpiBanner(p)
    \/ ImportPrt(p)
    \/ ValidateInput(p)
    \/ MkdirBegin(p)
    \/ MkdirSyscall(p)
    \/ BuildConfig(p)
    \/ ConstructEngine(p)
    \/ RunEngine(p)
    \/ EngineReturn(p)
    \/ Report(p)

\* ------------------------------------------------- prior transforms

\* Exact rationals n/d, d > 0, in lowest terms.
Abs(i) == IF i < 0 THEN 0 - i ELSE i

RECURSIVE Gcd(_, _)
Gcd(a, b) == IF b = 0 THEN a ELSE Gcd(b, a % b)

Rat(n, d) ==
    LET g == Gcd(Abs(n), d)
    IN  IF n = 0 THEN [n |-> 0, d |-> 1] ELSE [n |-> n \div g, d |-> d \div g]

RAdd(a, b) == Rat(a.n * b.d + b.n * a.d, a.d * b.d)
RMul(a, b) == Rat(a.n * b.n, a.d * b.d)
RLe(a, b) == a.n * b.d <= b.n * a.d

\* cst.r_jup_mean of petitRADTRANS, 6.9911e9 cm, in units of 1e5 cm.
r_jup_mean == Rat(69911, 1)

\* lambda x: 2.0 + 3.5 * x
LogGPrior(x) == RAdd(Rat(2, 1), RMul(Rat(35, 10), x))

\* Faulty transform: the parentheses are lost, 0.2 + 0.2 * x * cst.r_jup_mean.
PlanetRadiusPriorUnparenthesised(x) == RAdd(Rat(2, 10), RMul(RMul(Rat(2, 10), x), r_jup_mean))

\* lambda x: (0.2 + 0.2 * x) * cst.r_jup_mean
PlanetRadiusPrior(x) == RMul(RAdd(Rat(2, 10), RMul(Rat(2, 10), x)), r_jup_mean)

\* lambda x: 300.0 + 2000.0 * x
TemperaturePrior(x) == RAdd(Rat(300, 1), RMul(Rat(2000, 1), x))

\* lambda x: -6.0 + 8.0 * x
LogPcloudPrior(x) == RAdd(Rat(-6, 1), RMul(Rat(8, 1), x))

\* transform_prior_cube_coordinate of the free parameter `name`.
Transform(name, x) ==
    CASE name = "log_g"         -> LogGPrior(x)
      [] name = "planet_radius" -> PlanetRadiusPrior(x)
      [] name = "temperature"   -> TemperaturePrior(x)
      [] name = "log_Pcloud"    -> LogPcloudPrior(x)

FreeParameters(cfg) ==
    {cfg.params[i].name : i \in {j \in 1..Len(cfg.params) : cfg.params[j].free}}

\* While retrieval.run is active the sampler evaluates a registered transform
\* at a cube coordinate k/Grid; the evaluation touches nothing else.
SamplePrior(p) ==
    /\ pc[p] = "running"
    /\ config[p].built
    /\ calls < MaxCalls
    /\ \E name \in FreeParameters(config[p]), k \in 0..Grid :
          priorLog' = priorLog \cup
              {[name |-> name, k |-> k, value |-> Transform(name, Rat(k, Grid))]}
    /\ calls' = calls + 1
    /\ UNCHANGED <<worldVars, fsVars, pc, args, env, stderr, stdout, imported, locals,
                   mkStack, config, engine, runCall, error, exitCode, steps>>

\* ------------------------------------------------------ initial states

HelpLine ==
    [help |-> TRUE, prt_data |-> NotGiven, output_dir |-> NotGiven, use_mpi |-> FALSE,
     n_live_points |-> NotGiven, resume |-> FALSE, evaluate_only |-> FALSE,
     omp_threads |-> NotGiven]

\* The command lines explored: each option absent or given, integers as
\* positive, zero, negative and malformed literals.
CommandLines ==
    [help          : {FALSE},
     prt_data      : {NotGiven, Given(<<"data">>)},
     output_dir    : {NotGiven, Given(<<"~", "runs">>)},
     use_mpi       : BOOLEAN,
     n_live_points : {NotGiven, Given(<<"8", "0">>), Given(<<"0">>), Given(<<"-", "5">>),
                      Given(<<"x">>)},
     resume        : BOOLEAN,
     evaluate_only : BOOLEAN,
     omp_threads   : {NotGiven, Given(<<"4">>)}]
    \cup {HelpLine}

\* The launcher's command lines: mpirun python run_prt_... --use-mpi [--output-dir ~/runs]
MpiCommandLines ==
    {cl \in CommandLines :
        /\ cl.use_mpi /\ ~cl.resume /\ ~cl.evaluate_only
        /\ ~cl.prt_data.given /\ ~cl.n_live_points.given /\ ~cl.omp_threads.given}

BaseDirs == Ancestors(Cwd) \cup Ancestors(Home)

\* The directories --prt-data can name.
InputDirs == {Loc(PathOf(DefaultPrtData)), Loc(PathOf(<<"data">>))}

InputStates == {"missing", "empty", "present"}

InputDirsOf(st) ==
    IF st = "missing" THEN {} ELSE UNION {Ancestors(d) : d \in InputDirs}

InputFilesOf(st) ==
    IF st = "present" THEN {Append(d, DataFileName) : d \in InputDirs} ELSE {}

\* How much of the output path exists before the run: nothing, the parent
\* only, or the directory itself.
OutputStates == {"none", "parent", "all"}

OutputDirsOf(st) ==
    CASE st = "none"   -> {}
      [] st = "parent" -> {Cwd \o <<"retrievals">>}
      [] st = "all"    -> {Cwd \o <<"retrievals">>, Cwd \o <<"retrievals", "runs">>,
                           Home \o <<"runs">>}

\* The environment a process inherits: nothing set, or stale values.
InheritedEnvs ==
    {[n \in EnvNames |-> Unset],
     [n \in EnvNames |-> IF n = "OMP_NUM_THREADS" THEN Inherited(<<"8">>)
                         ELSE IF n = "PRT_INPUT_DATA_PATH" THEN Inherited(<<"/", "old">>)
                         ELSE Unset]}

EngineFaults == {"none", "config", "construct", "run"}

InitProcs(e) ==
    /\ pc = [p \in Procs |-> "parse"]
    /\ args = [p \in Procs |-> NoArgs]
    /\ env = [p \in Procs |-> e]
    /\ stderr = [p \in Procs |-> <<>>]
    /\ stdout = [p \in Procs |-> <<>>]
    /\ imported = [p \in Procs |-> NotImported]
    /\ locals = [p \in Procs |-> NoLocals]
    /\ mkStack = [p \in Procs |-> <<>>]
    /\ config = [p \in Procs |-> NoConfig]
    /\ engine = [p \in Procs |-> NoEngine]
    /\ runCall = [p \in Procs |-> NoRun]
    /\ error = [p \in Procs |-> NoError]
    /\ exitCode = [p \in Procs |-> -1]
    /\ steps = [p \in Procs |-> <<>>]
    /\ calls = 0
    /\ priorLog = {}

InitWorld(cls, ins, outs, installed, faults) ==
    /\ argv \in cls
    /\ mpi4pyInstalled \in BOOLEAN
    /\ \E i \in ins, o \in outs :
          /\ dirs = BaseDirs \cup InputDirsOf(i) \cup OutputDirsOf(o)
          /\ files = InputFilesOf(i)
    /\ prtInstalled \in installed
    /\ engineFault \in faults

\* One process, any command line, any environment.
Init ==
    /\ InitWorld(CommandLines, InputStates, OutputStates, BOOLEAN, EngineFaults)
    /\ \E e \in InheritedEnvs : InitProcs(e)

Next == Step(1)

Spec == Init /\ [][Next]_vars

\* The distributed launch: NumProcs processes, one command line, a valid
\* input directory, a working installation.
InitMpi ==
    /\ InitWorld(MpiCommandLines, {"present"}, OutputStates, {TRUE}, {"none"})
    /\ InitProcs([n \in EnvNames |-> Unset])

NextMpi == \E p \in Procs : Step(p)

\* Every started process keeps executing: the operating system schedules each.
FairSpecMpi == InitMpi /\ [][NextMpi]_vars /\ \A p \in Procs : WF_vars(Step(p))

\* A run with the default command line in which the sampler evaluates priors.
InitPrior ==
    /\ InitWorld({[HelpLine EXCEPT !.help = FALSE]}, {"present"}, {"none"}, {TRUE}, {"none"})
    /\ InitProcs([n \in EnvNames |-> Unset])

NextPrior == Step(1) \/ SamplePrior(1)

SpecPrior == InitPrior /\ [][NextPrior]_vars

\* ---------------------------------------------------------- properties

Performed(p, s) == \E i \in 1..Len(steps[p]) : steps[p][i] = s
Printed(out, line) == \E i \in 1..Len(out) : out[i] = line
IsPrefix(s, t) == Len(s) <= Len(t) /\ s = SubSeq(t, 1, Len(s))

\* The file the command line asks for, written out from the command line.
ExpectedDataFile ==
    [abs   |-> TRUE,
     parts |-> IF argv.prt_data.given
               THEN <<"work", "data", "hst_example_clear_spec.txt">>
               ELSE <<"home", "jkrick", "fornax-demo-notebooks", "pRT", "prt_data",
                      "hst_example_clear_spec.txt">>]

InputFilePresent == ExpectedDataFile.parts \in files \cup dirs

\* The directory the command line asks the outputs to go to.
ExpectedOutputLoc ==
    IF argv.output_dir.given THEN <<"home", "jkrick", "runs">>
    ELSE <<"work", "retrievals", "runs">>

MkdirErrors == {"FileExistsError", "FileNotFoundError", "NotADirectoryError"}

\* C1: when the input directory holds hst_example_clear_spec.txt the validation
\* succeeds and main() goes on to the construction steps; when it does not,
\* validation raises FileNotFoundError naming the resolved expected path, and
\* neither RetrievalConfig nor Retrieval is built nor Retrieval.run called.
C1_MissingInputStopsBeforeEngine ==
    \A p \in Procs :
        /\ ~InputFilePresent =>
              ~config[p].built /\ ~engine[p].built /\ ~runCall[p].called
        /\ (Performed(p, "validate") /\ ~InputFilePresent) =>
              /\ pc[p] = "failed"
              /\ error[p] = [type |-> "FileNotFoundError", path |-> ExpectedDataFile]
              /\ ~Performed(p, "config") /\ ~Performed(p, "construct") /\ ~Performed(p, "run")
        /\ (Performed(p, "validate") /\ InputFilePresent) =>
              /\ error[p].type # "FileNotFoundError"
              /\ pc[p] \in {"mkdir", "mkdir_sys", "config", "construct", "run", "running",
                            "report", "done"}
                 \/ (pc[p] = "failed" /\ error[p].type = "EngineError")

C1_Witness ==
    /\ ~InputFilePresent
    /\ argv.prt_data.given
    /\ pc[1] = "failed"
    /\ error[1].type = "FileNotFoundError"

\* C2: whenever the petitRADTRANS import is executed, PRT_INPUT_DATA_PATH,
\* pRT_input_data_path and OMP_NUM_THREADS have already been written by the
\* script from the parsed options, and that is the environment the library sees.
C2_EnvSetBeforeImport ==
    \A p \in Procs :
        /\ Performed(p, "import") =>
              \A n \in EnvNames : env[p][n].isset /\ env[p][n].byScript
        /\ imported[p].done =>
              /\ \A n \in EnvNames : imported[p].env[n].isset /\ imported[p].env[n].byScript
              /\ \A n \in {"PRT_INPUT_DATA_PATH", "pRT_input_data_path"} :
                    imported[p].env[n].str =
                        IF argv.prt_data.given THEN argv.prt_data.str
                        ELSE <<"/", "home", "jkrick", "fornax-demo-notebooks", "pRT", "prt_data">>
              /\ imported[p].env["OMP_NUM_THREADS"].str =
                    IF argv.omp_threads.given THEN argv.omp_threads.str ELSE <<"1">>

C2_Witness ==
    /\ imported[1].done
    /\ argv.omp_threads.given
    /\ argv.prt_data.given
    /\ pc[1] = "validate"

\* The end-to-end scenario: a --prt-data directory with the file, every other
\* flag at its default, an importable library and an engine that does nothing.
Scenario ==
    /\ ~argv.help
    /\ argv.prt_data.given
    /\ InputFilePresent
    /\ ~argv.output_dir.given /\ ~argv.n_live_points.given /\ ~argv.omp_threads.given
    /\ ~argv.use_mpi /\ ~argv.resume /\ ~argv.evaluate_only
    /\ prtInstalled
    /\ engineFault = "none"

Pipeline ==
    <<"parse", "env", "banner", "import", "validate", "mkdir", "config", "construct", "run">>

\* C3: in the end-to-end scenario the steps happen in the order parse, set
\* environment, banner, import, validate, create output directory, build
\* configuration, construct engine; no step fails; each step finds the effects
\* of the earlier ones; and the process ends with the output directory
\* present, "Done." printed and exit code 0.
C3_EndToEndOrder ==
    Scenario =>
        \A p \in Procs :
            /\ IsPrefix(steps[p], Pipeline)
            /\ pc[p] # "failed" /\ error[p] = NoError
            /\ Performed(p, "env") => \A n \in EnvNames : env[p][n].byScript
            /\ Performed(p, "banner") => Len(stderr[p]) = 3
            /\ Performed(p, "import") => imported[p].done
            /\ Performed(p, "validate") => locals[p].data_file = ExpectedDataFile
            /\ Performed(p, "mkdir") => ExpectedOutputLoc \in dirs
            /\ Performed(p, "config") => config[p].built
            /\ Performed(p, "construct") => engine[p].built
            /\ exitCode[p] # -1 => pc[p] = "done"
            /\ pc[p] = "done" =>
                  /\ steps[p] = Pipeline
                  /\ ExpectedOutputLoc \in dirs
                  /\ Printed(stdout[p], "Done.")
                  /\ exitCode[p] = 0

C3_Witness ==
    /\ Scenario
    /\ pc[1] = "done"
    /\ exitCode[1] = 0

\* The run states of section 4.7.
Phase(at) ==
    CASE at = "running"            -> "RUNNING"
      [] at \in {"report", "done"} -> "DONE"
      [] at = "failed"             -> "FAILED"
      [] OTHER                     -> "NOT-STARTED"

PhaseMoves ==
    {<<"NOT-STARTED", "RUNNING">>, <<"NOT-STARTED", "FAILED">>,
     <<"RUNNING", "DONE">>, <<"RUNNING", "FAILED">>}

Faults == {"FileNotFoundError", "ImportError", "EngineError"}

\* A fault has occurred in process p: the step that meets it has been executed.
FaultMet(p) ==
    \/ Performed(p, "import") /\ ~prtInstalled
    \/ Performed(p, "validate") /\ ~InputFilePresent
    \/ Performed(p, "config") /\ engineFault = "config"
    \/ Performed(p, "construct") /\ engineFault = "construct"
    \/ Performed(p, "run") /\ pc[p] # "running" /\ engineFault = "run"

\* C4: the run moves NOT-STARTED -> RUNNING (on retrieval.run) -> DONE or
\* FAILED and DONE and FAILED are never left; once main() has ended nothing
\* of the process changes; "Done." with exit code 0 appears only after
\* retrieval.run has returned; and every fault of validation, import, engine
\* construction or engine run ends in FAILED, exit status non-zero, no "Done.".
C4_RunStateMachine ==
    /\ [][\A p \in Procs :
            /\ Phase(pc[p]) # Phase(pc'[p]) => <<Phase(pc[p]), Phase(pc'[p])>> \in PhaseMoves
            /\ Phase(pc'[p]) = "RUNNING" /\ Phase(pc[p]) # "RUNNING" => runCall'[p].called
            /\ pc[p] \in {"done", "failed", "exited"} =>
                  /\ pc'[p] = pc[p] /\ exitCode'[p] = exitCode[p]
                  /\ stdout'[p] = stdout[p] /\ stderr'[p] = stderr[p]
                  /\ engine'[p] = engine[p] /\ runCall'[p] = runCall[p]
                  /\ dirs' = dirs]_vars
    /\ [](\A p \in Procs :
            /\ Printed(stdout[p], "Done.") =>
                  /\ exitCode[p] = 0 /\ pc[p] = "done"
                  /\ runCall[p].called /\ error[p] = NoError /\ engineFault # "run"
            /\ Phase(pc[p]) = "DONE" => runCall[p].called /\ engineFault # "run"
            /\ FaultMet(p) =>
                  /\ Phase(pc[p]) = "FAILED"
                  /\ error[p].type \in Faults
                  /\ exitCode[p] \notin {0, -1}
                  /\ ~Printed(stdout[p], "Done.")
            /\ Phase(pc[p]) = "FAILED" <=> exitCode[p] \notin {0, -1})

C4_Witness ==
    /\ engineFault = "run"
    /\ Performed(1, "run")
    /\ pc[1] = "failed"
    /\ exitCode[1] = 1

\* C5: with mpi4py absent _mpi_banner() raises nothing: it appends exactly the
\* one "unavailable" line to the error stream, and main() goes on to the
\* library import and, when that succeeds, to the validation.
C5_BannerNeverRaises ==
    /\ [][\A p \in Procs :
            (pc[p] = "banner" /\ pc'[p] # "banner" /\ ~mpi4pyInstalled) =>
                /\ pc'[p] = "import"
                /\ error'[p] = NoError /\ exitCode'[p] = -1
                /\ stderr'[p] = Append(stderr[p], "[mpi] mpi4py unavailable")
                /\ stdout'[p] = stdout[p]]_vars
    /\ [](\A p \in Procs :
            (Performed(p, "banner") /\ ~mpi4pyInstalled) =>
                /\ pc[p] = "import" \/ Performed(p, "import")
                /\ (prtInstalled /\ pc[p] # "import") =>
                      pc[p] = "validate" \/ Performed(p, "validate"))

C5_Witness ==
    /\ ~mpi4pyInstalled
    /\ Printed(stderr[1], "[mpi] mpi4py unavailable")
    /\ Performed(1, "validate")

\* C6 as stated: the n_live_points handed to retrieval.run is greater than zero.
C6_LivePointsPositive ==
    \A p \in Procs : runCall[p].called => runCall[p].n_live_points > 0

\* C6 as amended: the n_live_points handed to retrieval.run is the integer the
\* command line gives (40 without --n-live-points), unchanged and unchecked:
\* it is greater than zero exactly when the given literal is.
C6_LivePointsAsGiven ==
    \A p \in Procs :
        runCall[p].called =>
            /\ runCall[p].n_live_points \in Int
            /\ IF argv.n_live_points.given
               THEN PyStr(runCall[p].n_live_points) = argv.n_live_points.str
               ELSE runCall[p].n_live_points = 40
            /\ runCall[p].n_live_points > 0 <=>
                  \/ ~argv.n_live_points.given
                  \/ /\ argv.n_live_points.str[1] # "-"
                     /\ \E i \in 1..Len(argv.n_live_points.str) :
                           argv.n_live_points.str[i] \in {"1", "2", "3", "4", "5", "6", "7", "8", "9"}

C6_Witness ==
    /\ runCall[1].called
    /\ argv.n_live_points.given
    /\ runCall[1].n_live_points <= 0

\* C7: the output-directory step performed again on the same path raises
\* nothing and leaves the directory present, and performed while the
\* directory exists it leaves the filesystem as it is.
C7_MkdirIdempotent ==
    /\ [](\A p \in Procs :
            /\ error[p].type \notin MkdirErrors
            /\ Performed(p, "mkdir") => ExpectedOutputLoc \in dirs)
    /\ [][(ExpectedOutputLoc \in dirs) => (dirs' = dirs /\ files' = files)]_vars

C7_Witness ==
    /\ \A p \in Procs : Performed(p, "mkdir") /\ pc[p] = "config"
    /\ ExpectedOutputLoc \in dirs

\* C8: the run_mode given to RetrievalConfig is "evaluate" exactly when
\* --evaluate-only is on the command line, and "retrieve" otherwise, whatever
\* the other flags are.
C8_RunModeFollowsFlag ==
    \A p \in Procs :
        config[p].built =>
            /\ config[p].run_mode \in {"evaluate", "retrieve"}
            /\ config[p].run_mode = "evaluate" <=> argv.evaluate_only

C8_Witness ==
    /\ config[1].built
    /\ config[1].run_mode = "evaluate"
    /\ argv.use_mpi /\ argv.resume /\ argv.n_live_points.given

\* The documented ends of the four priors.
LowBound(name) ==
    CASE name = "log_g"         -> Rat(2, 1)
      [] name = "planet_radius" -> RMul(Rat(1, 5), r_jup_mean)
      [] name = "temperature"   -> Rat(300, 1)
      [] name = "log_Pcloud"    -> Rat(-6, 1)

HighBound(name) ==
    CASE name = "log_g"         -> Rat(11, 2)
      [] name = "planet_radius" -> RMul(Rat(2, 5), r_jup_mean)
      [] name = "temperature"   -> Rat(2300, 1)
      [] name = "log_Pcloud"    -> Rat(2, 1)

\* C9: every evaluation of a registered prior transform at 0 gives the
\* documented lower bound and at 1 the upper bound; two evaluations of the
\* same transform at the same coordinate agree; a larger coordinate gives a
\* larger value.
C9_PriorTransforms ==
    \A e \in priorLog :
        /\ e.name \in {"log_g", "planet_radius", "temperature", "log_Pcloud"}
        /\ e.k = 0 => e.value = LowBound(e.name)
        /\ e.k = Grid => e.value = HighBound(e.name)
        /\ \A f \in priorLog :
              f.name = e.name =>
                  /\ e.k = f.k => e.value = f.value
                  /\ e.k < f.k => RLe(e.value, f.value) /\ e.value # f.value

C9_Witness ==
    /\ \E e, f \in priorLog :
          e.name = "planet_radius" /\ f.name = "planet_radius" /\ e.k = 0 /\ f.k = Grid
    /\ calls = MaxCalls

\* C10: processes started together on one --output-dir never fail in the
\* directory creation, whatever the interleaving of their os.mkdir calls on
\* the directory and its missing parents; the directory exists whenever a
\* process constructs its engine; and every process reaches the construction.
C10_ConcurrentMkdir ==
    /\ [](\A p \in Procs :
            /\ error[p].type \notin MkdirErrors
            /\ pc[p] # "failed"
            /\ (pc[p] = "construct" \/ Performed(p, "construct")) => ExpectedOutputLoc \in dirs)
    /\ <>(\A p \in Procs : Performed(p, "construct") /\ engine[p].built)

\* A process that found the parent missing is about to retry os.mkdir on a
\* directory another process has created meanwhile.
C10_Witness ==
    \E p \in Procs :
        /\ pc[p] = "mkdir_sys"
        /\ Len(mkStack[p]) = 1
        /\ ~mkStack[p][1].parents
        /\ ExpectedOutputLoc \in dirs

====
